---- MODULE Spec2Model ----
(***************************************************************************)
(* generate_secret_santa.py: the derangement generator generate_matches,   *)
(* and main, which renders and writes one page per participant and then    *)
(* index.html.                                                             *)
(*                                                                         *)
(* A participant name is a sequence of characters; a character is a        *)
(* one-element string, "Aacute" stands for the precomposed letter U+00C1   *)
(* and "acute" for the combining mark U+0301.  File names and page         *)
(* contents are sequences of characters too; the fixed text of a template  *)
(* is one opaque character per stretch.                                    *)
(***************************************************************************)
EXTENDS Integers, Sequences, FiniteSets, TLC

\* ---------------------------------------------------------------- bounds
\* longest participant list tried
MaxN == 3

\* ------------------------------------------------------ program constants
\* max_attempts = 1000
max_attempts == 1000

\* generate_random_string(length=8)
length == 8

\* ------------------------------------------------------------ participants
NameA == <<"A">>
NameB == <<"B">>
NameC == <<"C">>
NameAacute == <<"Aacute">>

\* the names a participant list is drawn from
Names == {NameA, NameB, NameC, NameAacute}

\* the names in the order a duplicate-free list holds them
Pool == <<NameA, NameAacute, NameB, NameC>>

\* a sample of string.ascii_lowercase + string.digits
characters == {"a", "7"}

IsUnique(s) == \A i, j \in DOMAIN s : s[i] = s[j] => i = j

SeqsUpTo(S, n) == UNION {[1..k -> S] : k \in 0..n}

\* the elements of s at the positions in P, in the order of s
SublistAt(s, P) ==
    LET F[i \in 0..Len(s)] ==
            IF i = 0 THEN <<>>
            ELSE IF i \in P THEN Append(F[i - 1], s[i]) ELSE F[i - 1]
    IN  F[Len(s)]

\* the lists PARTICIPANTS may hold: the selections of up to MaxN names of the
\* pool (no duplicates), and every list of up to MaxN names over A and B
\* (with the duplicates and the other orders)
ParticipantLists ==
    {SublistAt(Pool, P) : P \in {Q \in SUBSET DOMAIN Pool : Cardinality(Q) <= MaxN}}
        \cup SeqsUpTo({NameA, NameB}, MaxN)

\* ------------------------------------------------------------------ state
VARIABLES
    pc,             \* where the run is
    heap,           \* the list objects: heap[r] is the list with reference r
    receivers_ref,  \* generate_matches' local receivers (a reference, 0: none)
    givers_ref,     \* generate_matches' local givers (a reference, 0: none)
    attempt,        \* iterations of the for-loop begun (shuffles performed)
    matches,        \* the dict giver -> receiver, as its items in insertion order
    item,           \* position of main's loop in matches.items()
    written,        \* the completed write_text calls, in order
    error           \* the unhandled exception, "none" while there is none

vars == <<pc, heap, receivers_ref, givers_ref, attempt, matches, item, written, error>>

\* PARTICIPANTS is the first object of the heap
participants_ref == 1

participants == heap[participants_ref]

\* -------------------------------------------------------------- list.copy
ListAlias(h, ref) == [heap |-> h, ref |-> ref]

\* x.copy(): a new list object with the elements of x
ListCopy(h, ref) == [heap |-> Append(h, h[ref]), ref |-> Len(h) + 1]

\* ------------------------------------------------------------------- dict
DictKeys(d) == {d[i][1] : i \in DOMAIN d}

\* d[k] = v: a new key goes last, a present key keeps its place
DictSet(d, k, v) ==
    IF k \in DictKeys(d)
    THEN [i \in DOMAIN d |-> IF d[i][1] = k THEN <<k, v>> ELSE d[i]]
    ELSE Append(d, <<k, v>>)

\* --------------------------------------------------------- random.shuffle
Swap(x, i, j) == [x EXCEPT ![i] = x[j], ![j] = x[i]]

RECURSIVE ShuffleFrom(_, _)
ShuffleFrom(x, i) ==
    IF i < 2 THEN {x}
    ELSE UNION {ShuffleFrom(Swap(x, i, j), i - 1) : j \in 1..i}

\* sampling with replacement instead of permuting
ShuffleWithReplacement(x) == [DOMAIN x -> {x[i] : i \in DOMAIN x}]

\* random.shuffle(x): the lists an in-place Fisher-Yates pass can leave in x
Shuffle(x) == ShuffleFrom(x, Len(x))

\* ------------------------------------------------------- generate_matches
RECURSIVE CheckFrom(_, _, _)
CheckFrom(givers, receivers, i) ==
    IF i > Len(givers) THEN TRUE
    ELSE IF givers[i] = receivers[i] THEN FALSE
    ELSE CheckFrom(givers, receivers, i + 1)

\* the check stops after the first giver
ValidFirstOnly(givers, receivers) ==
    Len(givers) = 0 \/ givers[1] # receivers[1]

\* "Check if anyone got themselves": valid after the loop with its break
Valid(givers, receivers) == CheckFrom(givers, receivers, 1)

RECURSIVE BuildFrom(_, _, _, _)
BuildFrom(d, givers, receivers, i) ==
    IF i > Len(givers) THEN d
    ELSE BuildFrom(DictSet(d, givers[i], receivers[i]), givers, receivers, i + 1)

\* the dict pairs every giver with the first receiver
BuildMatchesFirst(d, givers, receivers) ==
    IF Len(givers) = 0 THEN d
    ELSE BuildFrom(d, givers, [i \in DOMAIN receivers |-> receivers[1]], 1)

\* "Create the matching dictionary"
BuildMatches(d, givers, receivers) == BuildFrom(d, givers, receivers, 1)

\* one attempt too many
LoopOffByOne(a) == a <= max_attempts

\* for attempt in range(max_attempts): another iteration follows a begun
LoopContinues(a) == a < max_attempts

\* ------------------------------------------------------ generate_filename
\* unicodedata.normalize('NFD', c) of one character
NFD(c) == IF c = "Aacute" THEN <<"A", "acute">> ELSE <<c>>

\* unicodedata.category(c)
Category(c) == IF c = "acute" THEN "Mn" ELSE "L"

Lower(c) ==
    CASE c = "A" -> "a"
      [] c = "B" -> "b"
      [] c = "C" -> "c"
      [] OTHER -> c

RECURSIVE Normalize(_)
Normalize(s) == IF s = <<>> THEN <<>> ELSE NFD(Head(s)) \o Normalize(Tail(s))

IsNotMark(c) == Category(c) # "Mn"

ReplaceSpace(c) == IF c = " " THEN "-" ELSE c

generate_filename(name) ==
    LET without_accents == SelectSeq(Normalize(name), IsNotMark)
    IN  [i \in DOMAIN without_accents |-> ReplaceSpace(Lower(without_accents[i]))]

\* ------------------------------------------------- generate_random_string
\* the strings of the given length the random source may deliver (here the
\* ones that differ in their last character)
generate_random_string(len) ==
    {[i \in 1..len |-> IF i = len THEN c ELSE "a"] : c \in characters}

\* -------------------------------------------------------------- rendering
HtmlSuffix == <<".", "h", "t", "m", "l">>

\* the page is named after its token alone
FilenameTokenOnly(filename_base, random_string) == random_string \o HtmlSuffix

\* f"{filename_base}-{random_string}.html"
Filename(filename_base, random_string) ==
    filename_base \o <<"-">> \o random_string \o HtmlSuffix

IndexFilename == <<"i", "n", "d", "e", "x">> \o HtmlSuffix

\* the page also names the first of PARTICIPANTS
PageWithFirstParticipant(giver, receiver, random_string) ==
    <<"<page:head>">> \o giver \o <<"<page:middle>">> \o receiver
        \o <<"<page:tail>">> \o (IF participants = <<>> THEN <<>> ELSE participants[1])

\* the template with {giver} and {receiver} filled in; random_string is unused
create_individual_page(giver, receiver, random_string) ==
    <<"<page:head>">> \o giver \o <<"<page:middle>">> \o receiver \o <<"<page:tail>">>

create_landing_page == <<"<landing>">>

\* the exception is swallowed and the run goes on where it was
ExceptionSwallowed(at) == at

\* no try/except anywhere: an exception raised at `at` ends the run
AfterException(at) == "aborted"

\* ------------------------------------------------------------------- Init
Init ==
    /\ pc = "main"
    /\ \E p \in ParticipantLists : heap = <<p>>
    /\ receivers_ref = 0
    /\ givers_ref = 0
    /\ attempt = 0
    /\ matches = <<>>
    /\ item = 0
    /\ written = <<>>
    /\ error = "none"

\* ---------------------------------------------------------------- actions
\* main calls generate_matches(PARTICIPANTS): the two copies and matches = {}
CallGenerateMatches ==
    /\ pc = "main"
    /\ LET r == ListCopy(heap, participants_ref)
           g == ListCopy(r.heap, participants_ref)
       IN  /\ heap' = g.heap
           /\ receivers_ref' = r.ref
           /\ givers_ref' = g.ref
    /\ matches' = <<>>
    /\ attempt' = 0
    /\ pc' = "gm_loop"
    /\ UNCHANGED <<item, written, error>>

\* one iteration of the for-loop: shuffle, check, and build on success
Attempt ==
    /\ pc = "gm_loop"
    /\ LoopContinues(attempt)
    /\ \E shuffled \in Shuffle(heap[receivers_ref]) :
        LET h == [heap EXCEPT ![receivers_ref] = shuffled]
        IN  /\ heap' = h
            /\ IF Valid(h[givers_ref], h[receivers_ref])
               THEN /\ matches' = BuildMatches(matches, h[givers_ref], h[receivers_ref])
                    /\ pc' = "gm_return"
               ELSE /\ matches' = matches
                    /\ pc' = "gm_loop"
    /\ attempt' = attempt + 1
    /\ UNCHANGED <<receivers_ref, givers_ref, item, written, error>>

\* the loop ran out: raise Exception("Could not generate valid matching ...")
Exhausted ==
    /\ pc = "gm_loop"
    /\ ~LoopContinues(attempt)
    /\ error' = "generation-exhausted"
    /\ pc' = AfterException("gm_loop")
    /\ UNCHANGED <<heap, receivers_ref, givers_ref, attempt, matches, item, written>>

\* return matches: the locals go, main starts on matches.items()
Return ==
    /\ pc = "gm_return"
    /\ heap' = <<heap[participants_ref]>>
    /\ receivers_ref' = 0
    /\ givers_ref' = 0
    /\ attempt' = 0
    /\ item' = 1
    /\ pc' = "render"
    /\ UNCHANGED <<matches, written, error>>

\* one iteration of main's loop, the write succeeding
WritePage ==
    /\ pc = "render"
    /\ item <= Len(matches)
    /\ \E random_string \in generate_random_string(length) :
        LET giver == matches[item][1]
            receiver == matches[item][2]
            filename == Filename(generate_filename(giver), random_string)
        IN  written' = Append(written,
                [filename |-> filename,
                 content |-> create_individual_page(giver, receiver, random_string)])
    /\ item' = item + 1
    /\ UNCHANGED <<pc, heap, receivers_ref, givers_ref, attempt, matches, error>>

\* one iteration of main's loop, write_text raising
WritePageFails ==
    /\ pc = "render"
    /\ item <= Len(matches)
    /\ error' = "io"
    /\ pc' = AfterException("render")
    /\ UNCHANGED <<heap, receivers_ref, givers_ref, attempt, matches, item, written>>

\* after the loop: index.html, then the summary
WriteIndex ==
    /\ pc = "render"
    /\ item > Len(matches)
    /\ written' = Append(written,
            [filename |-> IndexFilename, content |-> create_landing_page])
    /\ pc' = "done"
    /\ UNCHANGED <<heap, receivers_ref, givers_ref, attempt, matches, item, error>>

\* after the loop: write_text of index.html raising
WriteIndexFails ==
    /\ pc = "render"
    /\ item > Len(matches)
    /\ error' = "io"
    /\ pc' = AfterException("render")
    /\ UNCHANGED <<heap, receivers_ref, givers_ref, attempt, matches, item, written>>

Next ==
    \/ CallGenerateMatches
    \/ Attempt
    \/ Exhausted
    \/ Return
    \/ WritePage
    \/ WritePageFails
    \/ WriteIndex
    \/ WriteIndexFails

Spec == Init /\ [][Next]_vars

\* ------------------------------------------------------------- properties
N == Len(participants)

Range(s) == {s[i] : i \in DOMAIN s}

\* d[k] for a key k of the dict d
DictGet(d, k) == d[CHOOSE i \in DOMAIN d : d[i][1] = k][2]

\* generate_matches has returned its mapping (or is about to hand it over)
Returned == pc = "gm_return" \/ item >= 1

\* s occurs in text as a contiguous stretch
Occurs(s, text) ==
    \E k \in 1..(Len(text) - Len(s) + 1) : SubSeq(text, k, k + Len(s) - 1) = s

\* the identifier each name of Names is to give
ExpectedBase(name) ==
    CASE name = NameA -> <<"a">>
      [] name = NameB -> <<"b">>
      [] name = NameC -> <<"c">>
      [] name = NameAacute -> <<"a">>

Filenames == [i \in DOMAIN written |-> written[i].filename]

\* fn is <base>-<8 characters of the token alphabet>.html
IsPageFilename(fn, base) ==
    /\ Len(fn) = Len(base) + 1 + 8 + 5
    /\ SubSeq(fn, 1, Len(base)) = base
    /\ fn[Len(base) + 1] = "-"
    /\ \A k \in (Len(base) + 2)..(Len(base) + 9) : fn[k] \in characters
    /\ SubSeq(fn, Len(base) + 10, Len(fn)) = <<".", "h", "t", "m", "l">>

\* C1: when generate_matches returns on N >= 2 unique participants, every
\* participant has a receiver in the mapping and it is not the participant
C1_NoSelfAssignment ==
    (Returned /\ IsUnique(participants) /\ N >= 2)
        => \A p \in Range(participants) :
              p \in DictKeys(matches) /\ DictGet(matches, p) # p

C1_Witness ==
    pc = "gm_return" /\ IsUnique(participants) /\ N = 3 /\ attempt >= 2

\* C2: when generate_matches returns on unique participants, the keys of the
\* mapping are exactly the participants and every participant is the receiver
\* of exactly one giver, however many attempts were rejected before
C2_Bijection ==
    (Returned /\ IsUnique(participants))
        => /\ DictKeys(matches) = Range(participants)
           /\ Len(matches) = N
           /\ \A p \in Range(participants) :
                 Cardinality({i \in DOMAIN matches : matches[i][2] = p}) = 1
           /\ \A i \in DOMAIN matches : matches[i][2] \in Range(participants)

C2_Witness ==
    pc = "gm_return" /\ IsUnique(participants) /\ N = 3 /\ attempt >= 3

\* C3: the generation-exhausted error is raised after exactly 1000 shuffles,
\* with no mapping built or returned; every candidate rejected had a fixed
\* point; after the 1000th rejection the only step left is the raise; a
\* one-participant list never returns
C3_ExhaustedAtCeiling ==
    /\ error = "generation-exhausted"
          => attempt = 1000 /\ matches = <<>> /\ ~Returned /\ pc = "aborted"
    /\ attempt <= 1000
    /\ (pc = "gm_loop" /\ attempt = 1000) => (ENABLED Exhausted /\ ~ENABLED Attempt)
    /\ (pc = "gm_loop" /\ attempt < 1000) => (ENABLED Attempt /\ ~ENABLED Exhausted)
    /\ (pc = "gm_loop" /\ attempt > 0)
          => \E i \in DOMAIN heap[givers_ref] :
                heap[givers_ref][i] = heap[receivers_ref][i]
    /\ N = 1 => ~Returned

C3_Witness ==
    error = "generation-exhausted" /\ N = 2 /\ IsUnique(participants)

\* C4: a list of fewer than two participants, or one with duplicates, sees no
\* shuffle and returns no mapping
C4_InvalidInputRejectedFirst ==
    (N < 2 \/ ~IsUnique(participants)) => (attempt = 0 /\ ~Returned)

\* C5 as stated: for ["A","B"] the outcome is always {A:B, B:A}, never a
\* different mapping and never a failure
C5_TwoAlwaysSwap ==
    participants = <<NameA, NameB>>
        => /\ error # "generation-exhausted"
           /\ Returned => matches = << <<NameA, NameB>>, <<NameB, NameA>> >>

\* C5 amended: for ["A","B"] a returned mapping is {A:B, B:A}; every rejected
\* candidate is [A,B], and the failure comes only after 1000 such candidates
C5_TwoSwapOrExhausted ==
    participants = <<NameA, NameB>>
        => /\ Returned => matches = << <<NameA, NameB>>, <<NameB, NameA>> >>
           /\ pc = "gm_loop" => heap[receivers_ref] = <<NameA, NameB>>
           /\ error = "generation-exhausted"
                 => attempt = 1000 /\ heap[receivers_ref] = <<NameA, NameB>>

C5_Witness ==
    participants = <<NameA, NameB>> /\ pc = "gm_return" /\ attempt >= 2

\* C6: each attempt is decided by its candidate alone: a candidate with no
\* index i where giver[i] = receiver[i] is returned at once, paired by
\* position with the givers in their fixed order, and any other candidate is
\* rejected and the next one tried, up to 1000; for ["A","B","C"] with
\* [A,B,C] rejected and [C,A,B] next, the result is {A:C, B:A, C:B}
C6_FirstValidCandidate ==
    [][(pc = "gm_loop" /\ attempt' = attempt + 1)
        => LET candidate == heap'[receivers_ref]
           IN  /\ attempt < 1000
               /\ heap'[givers_ref] = participants
               /\ IF \A i \in DOMAIN participants : participants[i] # candidate[i]
                  THEN /\ pc' = "gm_return"
                       /\ IsUnique(participants)
                             => matches' = [i \in DOMAIN participants |->
                                               <<participants[i], candidate[i]>>]
                  ELSE /\ pc' = "gm_loop"
                       /\ matches' = <<>>
               /\ (/\ participants = <<NameA, NameB, NameC>>
                   /\ attempt = 1
                   /\ heap[receivers_ref] = <<NameA, NameB, NameC>>
                   /\ candidate = <<NameC, NameA, NameB>>)
                     => matches' = << <<NameA, NameC>>, <<NameB, NameA>>,
                                      <<NameC, NameB>> >>
      ]_vars

C6_Witness ==
    /\ pc = "gm_return"
    /\ attempt = 2
    /\ participants = <<NameA, NameB, NameC>>
    /\ heap[receivers_ref] = <<NameC, NameA, NameB>>
    /\ matches = << <<NameA, NameC>>, <<NameB, NameA>>, <<NameC, NameB>> >>

\* C7 as stated: a completed run over N unique participants has written N+1
\* files, a page per participant and index.html last, under pairwise distinct
\* names whatever the tokens
C7_DistinctFilenames ==
    (pc = "done" /\ IsUnique(participants))
        => /\ Len(written) = N + 1
           /\ \A i \in 1..N :
                 IsPageFilename(written[i].filename, ExpectedBase(participants[i]))
           /\ written[N + 1].filename = IndexFilename
           /\ IsUnique(Filenames)

\* C7 amended: as C7, the page names being pairwise distinct whenever the
\* participants' normalized names are; no page is named index.html
C7_DistinctFilenamesForDistinctBases ==
    (pc = "done" /\ IsUnique(participants))
        => /\ Len(written) = N + 1
           /\ \A i \in 1..N :
                 /\ IsPageFilename(written[i].filename, ExpectedBase(participants[i]))
                 /\ written[i].filename # IndexFilename
           /\ written[N + 1].filename = IndexFilename
           /\ IsUnique([i \in 1..N |-> ExpectedBase(participants[i])])
                 => IsUnique(Filenames)

C7_Witness ==
    /\ pc = "done"
    /\ N = 3
    /\ IsUnique([i \in 1..N |-> ExpectedBase(participants[i])])
    /\ NameAacute \in Range(participants)
    /\ SubSeq(written[1].filename, 3, 10) = SubSeq(written[2].filename, 3, 10)

\* C8: the page written for a giver is the template filled with that giver
\* and that giver's receiver, so it is the same whatever the token and the
\* other givers' receivers, and the participant names occurring in it are
\* exactly these two
C8_PageNamesOnlyGiverAndReceiver ==
    \A i \in DOMAIN written :
        written[i].filename # IndexFilename
            => LET giver == matches[i][1]
                   receiver == matches[i][2]
                   content == written[i].content
               IN  /\ content = <<"<page:head>">> \o giver \o <<"<page:middle>">>
                                    \o receiver \o <<"<page:tail>">>
                   /\ {n \in Names : Occurs(n, content)} = {giver, receiver}

C8_Witness ==
    pc = "done" /\ N = 3 /\ IsUnique(participants) /\ Len(written) = 4

\* C9: after an error nothing more is written and nothing written is taken
\* back; a generation-exhausted run has written nothing; a run whose k-th
\* write failed has its k-1 earlier writes and no index.html
C9_AbortOnFirstError ==
    /\ [](error = "generation-exhausted" => written = <<>>)
    /\ [](error = "io"
            => /\ pc = "aborted"
               /\ Len(written) = item - 1
               /\ \A i \in DOMAIN written :
                     /\ written[i].filename # IndexFilename
                     /\ written[i].content # create_landing_page)
    /\ [](IndexFilename \in Range(Filenames)
            => /\ Len(written) = Len(matches) + 1
               /\ written[Len(written)].filename = IndexFilename)
    /\ [][error # "none" => (written' = written /\ error' = error)]_vars

C9_Witness ==
    error = "io" /\ Len(matches) = 3 /\ Len(written) = 1 /\ item = 2

\* C10: generate_matches leaves the list it was passed as it was: no step
\* changes PARTICIPANTS, and givers stays equal to it while receivers is
\* shuffled
C10_InputUnchanged ==
    /\ [](givers_ref # 0 => heap[givers_ref] = heap[participants_ref])
    /\ [][heap'[participants_ref] = heap[participants_ref]]_vars

C10_Witness ==
    /\ error = "generation-exhausted"
    /\ N = 3
    /\ heap[receivers_ref] # heap[participants_ref]

====
